---- MODULE Spec2Model ----
(***************************************************************************)
(* A model of the positional inverted index (Indexing.py) and of the query *)
(* functions that read it (QueryProcessing.py).                            *)
(*                                                                         *)
(* Modelling conventions                                                   *)
(*  - A document is a record [storyID, text]; text is the token sequence   *)
(*    that doc["text"].split() yields (whitespace splitting itself is not  *)
(*    modelled: a token is an atom).                                       *)
(*  - A query unit (wordPhrase) is the sequence of words that              *)
(*    wordPhrase.split() yields; a single term is a sequence of length 1.  *)
(*  - inverted_index is one dictionary, as in the code: the four           *)
(*    aggregate keys and the term keys live in the same key space.         *)
(*  - Python lists are sequences (1-based here, 0-based there); the        *)
(*    0-based values stored in docNumLookup are kept as the code stores    *)
(*    them.                                                                *)
(*  - A Python exception is a value of the variable err.                   *)
(***************************************************************************)
EXTENDS Integers, Sequences, FiniteSets, TLC

\* ------------------------------------------------------------------ bounds
\* At most MaxDocs documents, holding at most MaxTokens tokens together.
MaxDocs == 2
MaxTokens == 4
\* A PostingList driven on its own takes at most MaxUpdates update calls,
\* with positions in 1..MaxPos.
MaxUpdates == 4
MaxPos == 2
\* A ranker driven on its own scores at most MaxRanked candidates.
MaxRanked == 102

\* Document ids (storyID values), tokens that occur in documents, and a
\* query word that occurs in no document.
DocIds == {"d1", "d2"}
Tokens == {"a", "b"}
AbsentWord == "z"
Words == Tokens \cup {AbsentWord}

\* Python's string order on the document ids ("d1" < "d2").
IdOrd(d) == IF d = "d1" THEN 1 ELSE IF d = "d2" THEN 2 ELSE 3

RECURSIVE SeqsUpTo(_, _)
SeqsUpTo(S, n) ==
  IF n = 0 THEN {<<>>}
  ELSE LET shorter == SeqsUpTo(S, n - 1)
       IN shorter \cup {Append(s, x) : s \in {t \in shorter : Len(t) = n - 1}, x \in S}

Texts == SeqsUpTo(Tokens, MaxTokens)

Range(s) == {s[i] : i \in 1..Len(s)}

\* A sequence given by a function constructor, as the explicit list of its
\* values (the same sequence; its elements are then computed once).
AsList(s) == <<>> \o s

RECURSIVE SumSeq(_)
SumSeq(s) == IF s = <<>> THEN 0 ELSE Head(s) + SumSeq(Tail(s))

RECURSIVE SumOver(_, _)
SumOver(f, S) ==
  IF S = {} THEN 0
  ELSE LET x == CHOOSE y \in S : TRUE IN f[x] + SumOver(f, S \ {x})

\* ------------------------------------------------------------- PostingList
PostingList(term) ==
  [term |-> term, tf |-> 0, pList |-> <<>>, docNumLookup |-> <<>>]

getDocNum(self, docID) == self.docNumLookup[docID]

getPosting(self, docID) == self.pList[getDocNum(self, docID) + 1]

getList(self) == self.pList

getTF(self) == self.tf

hasDoc(self, docID) == docID \in DOMAIN self.docNumLookup

\* list(dict.keys()): the keys in insertion order.  A key is inserted with
\* the value len(pList), so the insertion order is the order of the values.
getDocs(self) ==
  [i \in 1..Cardinality(DOMAIN self.docNumLookup) |->
     CHOOSE d \in DOMAIN self.docNumLookup : self.docNumLookup[d] = i - 1]

getNumDocs(self) == Cardinality(DOMAIN self.docNumLookup)

\* A slip of update: the else branch appends the position and forgets the
\* posting's own frequency.
update_NoFreq(self, docID, pos) ==
  IF docID \notin DOMAIN self.docNumLookup
  THEN [self EXCEPT !.docNumLookup = (docID :> Len(self.pList)) @@ @,
                    !.pList = Append(@, <<docID, 1, <<pos>>>>),
                    !.tf = @ + 1]
  ELSE LET n == getDocNum(self, docID) + 1
       IN [self EXCEPT !.pList[n] = <<@[1], @[2], Append(@[3], pos)>>,
                       !.tf = @ + 1]

update(self, docID, pos) ==
  IF docID \notin DOMAIN self.docNumLookup
  THEN [self EXCEPT !.docNumLookup = (docID :> Len(self.pList)) @@ @,
                    !.pList = Append(@, <<docID, 1, <<pos>>>>),
                    !.tf = @ + 1]
  ELSE LET n == getDocNum(self, docID) + 1
       IN [self EXCEPT !.pList[n] = <<@[1], @[2] + 1, Append(@[3], pos)>>,
                       !.tf = @ + 1]

\* ------------------------------------------------------ build_inverted_index
SpecialKeys == {"xx_numDocs", "xx_numUniqueTerms", "xx_totalTF", "xx_docLens"}

EmptyIndex ==
  [xx_numDocs |-> 0, xx_numUniqueTerms |-> 0, xx_totalTF |-> 0, xx_docLens |-> <<>>]

\* A slip of the inner loop: the collection's occurrence count is not
\* incremented when the term is already a key.
IndexToken_NoTotal(idx, docID, term, pos) ==
  IF term \notin DOMAIN idx
  THEN [((term :> update(PostingList(term), docID, pos)) @@ idx)
          EXCEPT !["xx_numUniqueTerms"] = @ + 1, !["xx_totalTF"] = @ + 1]
  ELSE [idx EXCEPT ![term] = update(@, docID, pos)]

\* A slip of the inner loop: update(docID, i) instead of update(docID, i+1).
IndexToken_ZeroBased(idx, docID, term, pos) ==
  LET idx1 == IF term \notin DOMAIN idx
              THEN [((term :> PostingList(term)) @@ idx)
                      EXCEPT !["xx_numUniqueTerms"] = @ + 1]
              ELSE idx
      idx2 == [idx1 EXCEPT ![term] = update(@, docID, pos - 1)]
  IN [idx2 EXCEPT !["xx_totalTF"] = @ + 1]

\* The body of the inner loop for terms[i], whose position is i+1; pos is
\* that i+1.
IndexToken(idx, docID, term, pos) ==
  LET idx1 == IF term \notin DOMAIN idx
              THEN [((term :> PostingList(term)) @@ idx)
                      EXCEPT !["xx_numUniqueTerms"] = @ + 1]
              ELSE idx
      idx2 == [idx1 EXCEPT ![term] = update(@, docID, pos)]
  IN [idx2 EXCEPT !["xx_totalTF"] = @ + 1]

\* The exception of inverted_index[term].update(docID, i+1) for a token
\* spelled like an aggregate key: the key is in the dictionary, and its
\* value is an int, which has no update, or the xx_docLens dict, whose
\* update takes one argument.
UpdateError(term) ==
  IF term \notin SpecialKeys THEN "none"
  ELSE IF term = "xx_docLens" THEN "TypeError" ELSE "AttributeError"

\* The exception the inner loop raises on terms, "none" if it raises none.
BuildError(terms) ==
  LET at == {i \in 1..Len(terms) : terms[i] \in SpecialKeys}
  IN IF at = {} THEN "none"
     ELSE UpdateError(terms[CHOOSE i \in at : \A j \in at : i <= j])

\* The inner loop from terms[pos-1] on; it ends at the end of terms or at
\* the token that raises, with the index as it then stands.
RECURSIVE IndexTerms(_, _, _, _)
IndexTerms(idx, docID, terms, pos) ==
  IF pos > Len(terms) \/ UpdateError(terms[pos]) # "none" THEN idx
  ELSE IndexTerms(IndexToken(idx, docID, terms[pos], pos), docID, terms, pos + 1)

\* A slip of the outer loop: docLen = len(set(terms)), the number of
\* distinct terms.
IndexDoc_DistinctLen(idx, doc) ==
  LET terms == doc.text
      docLen == Cardinality(Range(terms))
      docID == doc.storyID
      idx1 == [idx EXCEPT !["xx_numDocs"] = @ + 1,
                          !["xx_docLens"] = (docID :> docLen) @@ @]
  IN IndexTerms(idx1, docID, terms, 1)

\* A slip of the outer loop: a document without tokens is skipped before
\* it is counted.
IndexDoc_SkipEmpty(idx, doc) ==
  IF doc.text = <<>> THEN idx
  ELSE LET idx1 == [idx EXCEPT !["xx_numDocs"] = @ + 1,
                               !["xx_docLens"] = (doc.storyID :> Len(doc.text)) @@ @]
       IN IndexTerms(idx1, doc.storyID, doc.text, 1)

\* The body of the outer loop for one document.
IndexDoc(idx, doc) ==
  LET terms == doc.text
      docLen == Len(terms)
      docID == doc.storyID
      idx1 == [idx EXCEPT !["xx_numDocs"] = @ + 1,
                          !["xx_docLens"] = (docID :> docLen) @@ @]
  IN IndexTerms(idx1, docID, terms, 1)

TermKeys(idx) == DOMAIN idx \ SpecialKeys

\* ------------------------------------------------------------ tf, df, cf
\* wpLists: for every word of the phrase, its position list in doc_id.
wpLists(inverted_index, doc_id, wp) ==
  [j \in 1..Len(wp) |-> getPosting(inverted_index[wp[j]], doc_id)[3]]

\* A slip of the inner loop of tf: currPos is never advanced.
ChainHolds_NoAdvance(lists, pos) ==
  \A i \in 2..Len(lists) : (pos + 1) \in Range(lists[i])

\* The inner loop of tf for one start position pos of the first word: it
\* runs to i = len(wp)-1 without a break iff every pos+i is a position of
\* word i.
ChainHolds(lists, pos) ==
  \A i \in 2..Len(lists) : (pos + i - 1) \in Range(lists[i])

tf(inverted_index, doc_id, term) ==
  IF Len(term) = 1
  THEN IF term[1] \notin DOMAIN inverted_index THEN 0
       ELSE IF hasDoc(inverted_index[term[1]], doc_id)
            THEN getPosting(inverted_index[term[1]], doc_id)[2]
            ELSE 0
  ELSE IF \E j \in 1..Len(term) :
            \/ term[j] \notin DOMAIN inverted_index
            \/ ~hasDoc(inverted_index[term[j]], doc_id)
       THEN 0
       ELSE LET lists == wpLists(inverted_index, doc_id, term)
            IN Cardinality({n \in 1..Len(lists[1]) : ChainHolds(lists, lists[1][n])})

\* check = [posting[0] for posting in inverted_index[wp[0]].getList()]
FirstTermDocs(inverted_index, wp) ==
  LET l == getList(inverted_index[wp[1]])
  IN [i \in 1..Len(l) |-> l[i][1]]

\* A slip of df: the phrase branch counts every document of the first term.
df_NoPhraseCheck(inverted_index, wordPhrase) ==
  IF wordPhrase[1] \notin DOMAIN inverted_index THEN 0
  ELSE Len(getList(inverted_index[wordPhrase[1]]))

\* A slip of df: occurrences are counted instead of documents.
df_SumsTF(inverted_index, wordPhrase) ==
  IF wordPhrase[1] \notin DOMAIN inverted_index THEN 0
  ELSE IF Len(wordPhrase) = 1 THEN getTF(inverted_index[wordPhrase[1]])
  ELSE LET check == FirstTermDocs(inverted_index, wordPhrase)
       IN SumSeq([i \in 1..Len(check) |-> tf(inverted_index, check[i], wordPhrase)])

\* A slip of df: the phrase branch counts the documents of the last word.
df_LastWordDocs(inverted_index, wordPhrase) ==
  LET last == wordPhrase[Len(wordPhrase)]
  IN IF last \notin DOMAIN inverted_index THEN 0
     ELSE Len(getList(inverted_index[last]))

df(inverted_index, wordPhrase) ==
  IF Len(wordPhrase) = 1
  THEN IF wordPhrase[1] \notin DOMAIN inverted_index THEN 0
       ELSE Len(getList(inverted_index[wordPhrase[1]]))
  ELSE IF wordPhrase[1] \notin DOMAIN inverted_index THEN 0
       ELSE LET check == FirstTermDocs(inverted_index, wordPhrase)
            IN Cardinality({i \in 1..Len(check) :
                              tf(inverted_index, check[i], wordPhrase) > 0})

\* A slip of collection_frequency: documents are counted instead of
\* occurrences.
collection_frequency_CountsDocs(inverted_index, term) ==
  IF term[1] \notin DOMAIN inverted_index THEN 0
  ELSE LET check == FirstTermDocs(inverted_index, term)
       IN Cardinality({i \in 1..Len(check) : tf(inverted_index, check[i], term) > 0})

collection_frequency(inverted_index, term) ==
  IF Len(term) = 1
  THEN IF term[1] \notin DOMAIN inverted_index THEN 0
       ELSE getTF(inverted_index[term[1]])
  ELSE IF term[1] \notin DOMAIN inverted_index THEN 0
       ELSE LET check == FirstTermDocs(inverted_index, term)
            IN SumSeq([i \in 1..Len(check) |-> tf(inverted_index, check[i], term)])

\* A slip of findDocsForWP: the phrase branch returns check unfiltered.
findDocsForWP_Unfiltered(inverted_index, wordPhrase) ==
  IF wordPhrase[1] \notin DOMAIN inverted_index THEN <<>>
  ELSE FirstTermDocs(inverted_index, wordPhrase)

findDocsForWP(inverted_index, wordPhrase) ==
  IF Len(wordPhrase) = 1
  THEN IF wordPhrase[1] \notin DOMAIN inverted_index THEN <<>>
       ELSE getDocs(inverted_index[wordPhrase[1]])
  ELSE IF wordPhrase[1] \notin DOMAIN inverted_index THEN <<>>
       ELSE LET check == FirstTermDocs(inverted_index, wordPhrase)
                Matches(d) == tf(inverted_index, d, wordPhrase) > 0
            IN SelectSeq(check, Matches)

\* tf, df and collection_frequency of a single word: the word is looked up
\* with `term not in inverted_index`, and the value found is asked for
\* hasDoc, getList or getTF, which an aggregate does not have.
SingleTermCall(inverted_index, fn, doc_id, word) ==
  IF word \in DOMAIN inverted_index /\ word \in SpecialKeys
  THEN [err |-> "AttributeError", result |-> <<>>]
  ELSE [err |-> "none",
        result |-> CASE fn = "tf" -> tf(inverted_index, doc_id, <<word>>)
                     [] fn = "df" -> df(inverted_index, <<word>>)
                     [] OTHER -> collection_frequency(inverted_index, <<word>>)]

\* Both build a Python set; list(set) enumerates it in an order the
\* language does not fix, which the callers below draw with Orderings.
\* A slip of intersect: ret | set(checks[i]) for ret & set(checks[i]).
intersect_Or(inverted_index, wordPhrases) ==
  UNION {Range(findDocsForWP(inverted_index, wordPhrases[i])) :
           i \in 1..Len(wordPhrases)}

\* intersect is given a list of at least one unit (checks[0] is read).
intersect(inverted_index, wordPhrases) ==
  LET checks == [i \in 1..Len(wordPhrases) |->
                   findDocsForWP(inverted_index, wordPhrases[i])]
  IN {d \in Range(checks[1]) : \A i \in 2..Len(checks) : d \in Range(checks[i])}

\* A slip of union: every document of the collection is a candidate.
union_AllDocs(inverted_index, wordPhrases) ==
  DOMAIN inverted_index["xx_docLens"]

union(inverted_index, wordPhrases) ==
  UNION {Range(findDocsForWP(inverted_index, wordPhrases[i])) :
           i \in 1..Len(wordPhrases)}

Orderings(S) ==
  {s \in [1..Cardinality(S) -> S] : Range(s) = S}

\* ------------------------------------------------- exact score arithmetic
\* math.log is strictly increasing, so a sum of logarithms of positive
\* rationals is ordered as the product of their arguments.  The products
\* exceed 32-bit integers, so they are kept as little-endian digit
\* sequences in base Base.
Base == 10000

RECURSIVE BigMul(_, _, _)
BigMul(b, k, carry) ==
  IF b = <<>>
  THEN IF carry = 0 THEN <<>>
       ELSE <<carry % Base>> \o BigMul(<<>>, k, carry \div Base)
  ELSE LET v == Head(b) * k + carry
       IN <<v % Base>> \o BigMul(Tail(b), k, v \div Base)

RECURSIVE BigProd(_)
BigProd(factors) ==
  IF factors = <<>> THEN <<1>>
  ELSE BigMul(BigProd(Tail(factors)), Head(factors), 0)

RECURSIVE BigLess(_, _)
BigLess(x, y) ==
  IF Len(x) # Len(y) THEN Len(x) < Len(y)
  ELSE IF x = <<>> THEN FALSE
  ELSE LET n == Len(x)
       IN IF x[n] # y[n] THEN x[n] < y[n]
          ELSE BigLess(SubSeq(x, 1, n - 1), SubSeq(y, 1, n - 1))

\* The order of two sums of logarithms as real numbers; s and t are the
\* sequences of the logarithms' arguments, each a pair
\* <<numerator, denominator>> of positive integers.
ExactLess(s, t) ==
  BigLess(BigProd([i \in 1..Len(s) |-> s[i][1]] \o [i \in 1..Len(t) |-> t[i][2]]),
          BigProd([i \in 1..Len(t) |-> t[i][1]] \o [i \in 1..Len(s) |-> s[i][2]]))

ExactTie(s, t) == ~ExactLess(s, t) /\ ~ExactLess(t, s)

\* A logSum as the code holds it, a binary floating-point number: the
\* arguments of its logarithms (args) and the place its rounding gives it
\* among the sums that are equal as real numbers (ulp).  Sums of the same
\* arguments in the same order are the same number.
LogSumLess(s, t) ==
  \/ ExactLess(s.args, t.args)
  \/ ExactTie(s.args, t.args) /\ s.ulp < t.ulp

\* A slip of the rankers: the list is returned as it was filled.
SortBy_NoSort(s, before) == s

\* list.sort: a stable sort.  before[i, j] holds when s[i] must precede
\* s[j]; an element's place is the number of elements that must precede it
\* plus the number of earlier elements it is tied with.
SortBy(s, before) ==
  LET n == Len(s)
      Tied(i, j) == ~before[i, j] /\ ~before[j, i]
      Place(i) == 1 + Cardinality({j \in 1..n : before[j, i]})
                    + Cardinality({j \in 1..(i - 1) : Tied(i, j)})
  IN [p \in 1..n |-> s[CHOOSE i \in 1..n : Place(i) = p]]

\* ranking[0:100] when len(ranking) >= 100.
TopK == 100

\* A slip of the truncation: ranking[0:99].
Truncate_OneShort(ranking) ==
  IF Len(ranking) >= TopK THEN SubSeq(ranking, 1, TopK - 1) ELSE ranking

Truncate(ranking) ==
  IF Len(ranking) >= TopK THEN SubSeq(ranking, 1, TopK) ELSE ranking

\* --------------------------------------------------------- query_likelihood
mu == 300

\* A slip of cqi: the matching documents are counted.
cqi_CountsDocs(inverted_index, wp) == Len(findDocsForWP(inverted_index, wp))

\* cqi: the sum of tf over findDocsForWP(inverted_index, wp).
cqi(inverted_index, wp) ==
  LET wpDocs == findDocsForWP(inverted_index, wp)
  IN SumSeq([i \in 1..Len(wpDocs) |-> tf(inverted_index, wpDocs[i], wp)])

\* logVal = (fqi + mu*(cqi/colLen)) / (docLen + mu), as the exact fraction
\* (fqi*colLen + mu*cqi) / (colLen*(docLen + mu)).
logVal(inverted_index, doc, wp) ==
  LET colLen == inverted_index["xx_totalTF"]
      docLen == inverted_index["xx_docLens"][doc]
      fqi == tf(inverted_index, doc, wp)
  IN <<fqi * colLen + mu * cqi(inverted_index, wp), colLen * (docLen + mu)>>

\* The arguments of the logarithms summed for one document.
logVals(inverted_index, wordPhrases, doc) ==
  AsList([i \in 1..Len(wordPhrases) |-> logVal(inverted_index, doc, wordPhrases[i])])

\* The roundings the floating-point sums may have: sums that differ as
\* real numbers keep their order; sums of different arguments that are
\* equal as real numbers may round to either order or to the same number.
Roundings(inverted_index, wordPhrases, docMatches) ==
  LET V == {logVals(inverted_index, wordPhrases, docMatches[k]) :
              k \in 1..Len(docMatches)}
      defined == \A v \in V : \A i \in 1..Len(v) : v[i][1] > 0 /\ v[i][2] > 0
      T == IF defined
           THEN {v \in V : \E w \in V : w # v /\ ExactTie(v, w)}
           ELSE {}
  IN {f \in [V -> 0..Cardinality(T)] :
        \A v \in V : IF v \in T THEN f[v] < Cardinality(T) ELSE f[v] = 0}

\* Tuple order on (logSum, doc), the order of ranking.sort().
QLTupleLess(x, y) ==
  \/ LogSumLess(x[1], y[1])
  \/ /\ ~LogSumLess(x[1], y[1]) /\ ~LogSumLess(y[1], x[1])
     /\ IdOrd(x[2]) < IdOrd(y[2])

\* ranking.sort(reverse=True): descending tuple order.
QLBefore(x, y) == QLTupleLess(y, x)

\* docMatches is the list made of union's set, in the order drawn, and
\* rounding one of Roundings.  math.log raises ValueError for an argument
\* that is not positive; the division by colLen raises ZeroDivisionError
\* when colLen is 0.
query_likelihood(inverted_index, wordPhrases, docMatches, rounding) ==
  LET n == Len(wordPhrases)
      colLen == inverted_index["xx_totalTF"]
      logSum(doc) ==
        LET v == logVals(inverted_index, wordPhrases, doc)
        IN [args |-> v, ulp |-> rounding[v]]
      ranking == AsList([k \in 1..Len(docMatches) |->
                           <<logSum(docMatches[k]), docMatches[k]>>])
  IN IF docMatches # <<>> /\ n > 0 /\ colLen = 0
     THEN [err |-> "ZeroDivisionError", result |-> <<>>]
     ELSE IF \E k \in 1..Len(docMatches), i \in 1..n :
               logVal(inverted_index, docMatches[k], wordPhrases[i])[1] <= 0
     THEN [err |-> "ValueError", result |-> <<>>]
     ELSE [err |-> "none",
           result |-> Truncate(SortBy(ranking,
                         [i, j \in 1..Len(ranking) |-> QLBefore(ranking[i], ranking[j])]))]

\* --------------------------------------------------------------------- bm25
\* k1 = 1.8, k2 = 5.0, b = 0.75, as integers: ten times k1, a hundred times b.
k1x10 == 18
k2 == 5
bx100 == 75

\* 1000 * ln(n) for the odd n that 2*ni + 1 and 2*(numDocs - ni) + 1 take.
LnMilli(n) ==
  CASE n = 1 -> 0
    [] n = 3 -> 1099
    [] n = 5 -> 1609
    [] n = 7 -> 1946
    [] n = 9 -> 2197
    [] n = 11 -> 2398
    [] OTHER -> 2565

\* A slip of avdl: the sum is divided by the number of recorded lengths.
avdl_OverRecorded(inverted_index) ==
  LET docLens == inverted_index["xx_docLens"]
  IN <<SumOver(docLens, DOMAIN docLens), Cardinality(DOMAIN docLens)>>

\* avdl = sum(inverted_index["xx_docLens"].values()) / numDocs, as the
\* fraction <<numerator, denominator>>.
avdl(inverted_index) ==
  LET docLens == inverted_index["xx_docLens"]
  IN <<SumOver(docLens, DOMAIN docLens), inverted_index["xx_numDocs"]>>

\* One summand of scoreSum, in thousandths and rounded down at each
\* division (the code computes it in binary floating point).  With
\* avdl = av[1]/av[2],
\*   K = k1*((1-b) + b*(dl/avdl))
\*     = k1x10*((100-bx100)*av[1] + bx100*dl*av[2]) / (1000*av[1]),
\*   math.log(1/((ni+0.5)/(numDocs-ni+0.5)))
\*     = ln(2*(numDocs-ni)+1) - ln(2*ni+1).
Summand(numDocs, av, dl, ni, fi, qfi) ==
  LET idf == LnMilli(2 * (numDocs - ni) + 1) - LnMilli(2 * ni + 1)
      tfNum == (k1x10 + 10) * fi * 100 * av[1]
      tfDen == k1x10 * ((100 - bx100) * av[1] + bx100 * dl * av[2])
                 + 1000 * av[1] * fi
      tfMilli == (tfNum * 1000) \div tfDen
      qfNum == (k2 + 1) * qfi
      qfDen == k2 + qfi
  IN (idf * tfMilli * qfNum) \div (1000 * qfDen)

\* A slip of bm25: qfi is taken to be 1.
CountIn_One(words, w) == 1

\* words.count(words[i])
CountIn(words, w) == Cardinality({j \in 1..Len(words) : words[j] = w})

\* A slip of the sort key: (x[0], x[1]) reversed, as query_likelihood sorts.
BM25Before_Reversed(x, y) ==
  \/ x[1] > y[1]
  \/ x[1] = y[1] /\ IdOrd(x[2]) > IdOrd(y[2])

\* results.sort(key=lambda x: (-x[0], x[1]))
BM25Before(x, y) ==
  \/ x[1] > y[1]
  \/ x[1] = y[1] /\ IdOrd(x[2]) < IdOrd(y[2])

\* ZeroDivisionError: sum(...)/numDocs with numDocs = 0, and dl/avdl with
\* avdl = 0.0 once the two loops reach it.  ValueError: math.log of an
\* argument that is not positive, numDocs - ni + 0.5 <= 0.
bm25(inverted_index, words, docMatches) ==
  LET numDocs == inverted_index["xx_numDocs"]
      docLens == inverted_index["xx_docLens"]
      av == avdl(inverted_index)
      n == Len(words)
      nis == AsList([i \in 1..n |-> df(inverted_index, words[i])])
      scoreSum(doc) ==
        SumSeq([i \in 1..n |->
                  Summand(numDocs, av, docLens[doc], nis[i],
                          tf(inverted_index, doc, words[i]),
                          CountIn(words, words[i]))])
      results == AsList([k \in 1..Len(docMatches) |->
                           <<scoreSum(docMatches[k]), docMatches[k]>>])
  IN IF numDocs = 0
     THEN [err |-> "ZeroDivisionError", result |-> <<>>]
     ELSE IF docMatches # <<>> /\ n > 0 /\ av[1] = 0
     THEN [err |-> "ZeroDivisionError", result |-> <<>>]
     ELSE IF docMatches # <<>> /\ \E i \in 1..n : 2 * (numDocs - nis[i]) + 1 <= 0
     THEN [err |-> "ValueError", result |-> <<>>]
     ELSE [err |-> "none",
           result |-> Truncate(SortBy(results,
                         [i, j \in 1..Len(results) |-> BM25Before(results[i], results[j])]))]

\* ----------------------------------------------------------------- queries
\* Tokens spelled like an aggregate key, one whose value is an int and the
\* one whose value is a dict, and the texts of at most MaxKeyText tokens
\* that hold such a token.
MaxKeyText == 2

KeyTokens == {"xx_numDocs", "xx_docLens"}

KeyTexts ==
  {t \in SeqsUpTo(Tokens \cup KeyTokens, MaxKeyText) : Range(t) \cap KeyTokens # {}}

\* A query holds at most MaxUnits units.
MaxUnits == 2

\* The query units the model runs: single terms, phrases, and units with a
\* word that no document holds, first or later in the phrase.
Units ==
  {<<"a">>, <<"b">>, <<AbsentWord>>, <<"a", "a">>, <<"a", "b">>,
   <<"a", AbsentWord>>, <<AbsentWord, "a">>}

UnitLists == SeqsUpTo(Units, MaxUnits) \ {<<>>}

\* The number of tokens of a collection.
TokenCount(ds) == SumSeq([i \in 1..Len(ds) |-> Len(ds[i].text)])

\* -------------------------------------------------------------- run_queries
\* At most MaxQueries queries are read from the query file.
MaxQueries == 2

\* A query is [kind, wps]: q[0] and q[2:].  q[1], its name, is taken to be
\* "q" and its place in the file.
QName(k) == IF k = 1 THEN "q1" ELSE IF k = 2 THEN "q2" ELSE "q3"

\* The text of a unit whose words are wp, one space between two words,
\* as the sequence of its words and separators.
Text(wp) ==
  [i \in 1..(2 * Len(wp) - 1) |-> IF i % 2 = 1 THEN wp[(i + 1) \div 2] ELSE " "]

\* str.replace on such a text.
replace(text, old, new) ==
  [i \in 1..Len(text) |-> IF text[i] = old THEN new ELSE text[i]]

\* f"{n:.4f}" of an integer n: <<n, 0>> stands for n, a point and 0000.
Format4(n) == <<n, 0>>

\* f"{score:.4f}" of a ranker's score; the decimal rounding is not computed.
FormatScore(score) == <<"%.4f", score>>

\* outputFormat.format(*printVal): the six columns of a line.
Line(name, key, rank, score) == <<name, "skip", key, rank, score, "ayeddala">>

Marker == <<"SOMETHING IS WRONG OOPS">>

\* matches.sort(key=lambda x: (-x[0], x[1])) of the tf branch.
MatchBefore(x, y) ==
  \/ x[1] > y[1]
  \/ x[1] = y[1] /\ IdOrd(x[2]) < IdOrd(y[2])

\* matches.sort() of the and / or branches: ascending document ids.
IdBefore(x, y) == IdOrd(x) < IdOrd(y)

\* A slip of the tf branch: every document of the collection is listed.
TFLines_AllDocs(inv_ind, name, wp) ==
  LET possDocs == CHOOSE o \in Orderings(DOMAIN inv_ind["xx_docLens"]) : TRUE
      matches == AsList([i \in 1..Len(possDocs) |->
                           <<tf(inv_ind, possDocs[i], wp), possDocs[i]>>])
      sorted == SortBy(matches,
                  [i, j \in 1..Len(matches) |-> MatchBefore(matches[i], matches[j])])
  IN [i \in 1..Len(sorted) |->
        Line(name, sorted[i][2], i, Format4(sorted[i][1]))]

\* The tf branch: the lines written for the unit q[2].
TFLines(inv_ind, name, wp) ==
  LET possDocs == findDocsForWP(inv_ind, wp)
      matches == AsList([i \in 1..Len(possDocs) |->
                           <<tf(inv_ind, possDocs[i], wp), possDocs[i]>>])
      sorted == SortBy(matches,
                  [i, j \in 1..Len(matches) |-> MatchBefore(matches[i], matches[j])])
  IN [i \in 1..Len(sorted) |->
        Line(name, sorted[i][2], i, Format4(sorted[i][1]))]

\* A slip of the df branch: the unit's text is written as it is.
DFLines_RawText(inv_ind, name, wps) ==
  LET all == [i \in 1..Len(wps) |->
                <<df(inv_ind, wps[i]),
                  Line(name, Text(wps[i]), i, Format4(df(inv_ind, wps[i])))>>]
      Positive(x) == x[1] > 0
      kept == SelectSeq(all, Positive)
  IN [i \in 1..Len(kept) |-> kept[i][2]]

\* The df branch: one line for every unit of q[2:] with currDF > 0.
DFLines(inv_ind, name, wps) ==
  LET all == [i \in 1..Len(wps) |->
                <<df(inv_ind, wps[i]),
                  Line(name, replace(Text(wps[i]), " ", "_"), i,
                       Format4(df(inv_ind, wps[i])))>>]
      Positive(x) == x[1] > 0
      kept == SelectSeq(all, Positive)
  IN [i \in 1..Len(kept) |-> kept[i][2]]

\* A slip of the and / or branches: matches.sort() is left out.
BoolLines_Unsorted(name, matches) ==
  [i \in 1..Len(matches) |-> Line(name, matches[i], i, Format4(1))]

\* The and / or branches: matches is the list intersect or union returned.
BoolLines(name, matches) ==
  LET sorted == SortBy(matches,
                  [i, j \in 1..Len(matches) |-> IdBefore(matches[i], matches[j])])
  IN [i \in 1..Len(sorted) |-> Line(name, sorted[i], i, Format4(1))]

\* The ql / bm25 branches: scores is the list the ranker returned.
RankLines(name, scores) ==
  [i \in 1..Len(scores) |->
     Line(name, scores[i][2], i, FormatScore(scores[i][1]))]

\* The kinds run_queries knows, and one it does not.
Kinds == {"tf", "df", "and", "or", "ql", "bm25"}
UnknownKind == "xx"

\* The queries a query file of the model holds.
BatchQueries ==
  {[kind |-> "tf", wps |-> <<u>>] : u \in {<<"a">>, <<"a", "b">>, <<AbsentWord>>}}
  \cup {[kind |-> k, wps |-> l] :
          k \in {"df", "and", "or"},
          l \in {<<<<"a">>>>, <<<<AbsentWord>>, <<"a">>>>, <<<<"a", "b">>, <<"b">>>>}}
  \cup {[kind |-> k, wps |-> l] :
          k \in {"ql", "bm25"}, l \in {<<<<"a">>>>, <<<<"a">>, <<"b">>>>}}
  \cup {[kind |-> UnknownKind, wps |-> <<<<"a">>>>]}

\* ------------------------------------------------------------------- state
VARIABLES
  docs,            \* the documents the loop of build_inverted_index has consumed
  inverted_index,  \* the dictionary being built, then read
  pc,              \* "building" | "built" | "answered" | "raised" | "closed"
  call,            \* the last query: <<function, wordPhrases>>, for tf also doc_id
  result,          \* what it returned
  err,             \* "none", or the exception it raised
  pl,              \* a PostingList driven directly through update
  ranking,         \* the sorted candidate list of a ranker on a large collection
  queries,         \* the queries the loop of run_queries has consumed
  output           \* the lines written to the trecrun file

vars == <<docs, inverted_index, pc, call, result, err, pl, ranking, queries, output>>

NoCall == <<"none", <<>>>>

Init ==
  /\ docs = <<>>
  /\ inverted_index = EmptyIndex
  /\ pc = "building"
  /\ call = NoCall
  /\ result = <<>>
  /\ err = "none"
  /\ pl = PostingList("t")
  /\ ranking = <<>>
  /\ queries = <<>>
  /\ output = <<>>

\* One iteration of `for doc in docs`.
AddDoc ==
  /\ pc = "building"
  /\ Len(docs) < MaxDocs
  /\ \E d \in DocIds, t \in Texts :
       LET doc == [storyID |-> d, text |-> t]
       IN /\ TokenCount(docs) + Len(t) <= MaxTokens
          /\ docs' = Append(docs, doc)
          /\ inverted_index' = IndexDoc(inverted_index, doc)
  /\ UNCHANGED <<pc, call, result, err, pl, ranking, queries, output>>

\* `return inverted_index`.
BuildReturn ==
  /\ pc = "building"
  /\ pc' = "built"
  /\ UNCHANGED <<docs, inverted_index, call, result, err, pl, ranking, queries, output>>

\* A call of query_likelihood on the built index.
RunQL ==
  /\ pc = "built"
  /\ \E wordPhrases \in UnitLists :
       \E docMatches \in Orderings(union(inverted_index, wordPhrases)) :
         \E rounding \in Roundings(inverted_index, wordPhrases, docMatches) :
           LET r == query_likelihood(inverted_index, wordPhrases, docMatches, rounding)
           IN /\ call' = <<"ql", wordPhrases>>
              /\ result' = r.result
              /\ err' = r.err
  /\ pc' = "answered"
  /\ UNCHANGED <<docs, inverted_index, pl, ranking, queries, output>>

\* A call of bm25 on the built index.
RunBM25 ==
  /\ pc = "built"
  /\ \E words \in UnitLists :
       \E docMatches \in Orderings(union(inverted_index, words)) :
         LET r == bm25(inverted_index, words, docMatches)
         IN /\ call' = <<"bm25", words>>
            /\ result' = r.result
            /\ err' = r.err
  /\ pc' = "answered"
  /\ UNCHANGED <<docs, inverted_index, pl, ranking, queries, output>>

\* A slip of tf: the term is fetched with setdefault, which stores an empty
\* PostingList under a word that was no key.
RunTF_Setdefault ==
  /\ pc = "built"
  /\ \E term \in Units, doc_id \in DocIds :
       /\ call' = <<"tf", <<term>>, doc_id>>
       /\ result' = tf(inverted_index, doc_id, term)
       /\ inverted_index' =
            IF term[1] \in DOMAIN inverted_index THEN inverted_index
            ELSE (term[1] :> PostingList(term[1])) @@ inverted_index
  /\ err' = "none"
  /\ pc' = "answered"
  /\ UNCHANGED <<docs, pl, ranking, queries, output>>

\* A call of tf on the built index.
RunTF ==
  /\ pc = "built"
  /\ \E term \in Units, doc_id \in DocIds :
       /\ call' = <<"tf", <<term>>, doc_id>>
       /\ result' = tf(inverted_index, doc_id, term)
  /\ err' = "none"
  /\ pc' = "answered"
  /\ UNCHANGED <<docs, inverted_index, pl, ranking, queries, output>>

\* A call of df on the built index.
RunDF ==
  /\ pc = "built"
  /\ \E wordPhrase \in Units :
       /\ call' = <<"df", <<wordPhrase>>>>
       /\ result' = df(inverted_index, wordPhrase)
  /\ err' = "none"
  /\ pc' = "answered"
  /\ UNCHANGED <<docs, inverted_index, pl, ranking, queries, output>>

\* A call of collection_frequency on the built index.
RunCF ==
  /\ pc = "built"
  /\ \E term \in Units :
       /\ call' = <<"collection_frequency", <<term>>>>
       /\ result' = collection_frequency(inverted_index, term)
  /\ err' = "none"
  /\ pc' = "answered"
  /\ UNCHANGED <<docs, inverted_index, pl, ranking, queries, output>>

\* A call of findDocsForWP on the built index.
RunFindDocs ==
  /\ pc = "built"
  /\ \E wordPhrase \in Units :
       /\ call' = <<"findDocsForWP", <<wordPhrase>>>>
       /\ result' = findDocsForWP(inverted_index, wordPhrase)
  /\ err' = "none"
  /\ pc' = "answered"
  /\ UNCHANGED <<docs, inverted_index, pl, ranking, queries, output>>

\* A slip of intersect: an empty list of units is answered with [].
RunIntersect_Guarded ==
  /\ pc = "built"
  /\ \E wordPhrases \in UnitLists \cup {<<>>} :
       /\ call' = <<"intersect", wordPhrases>>
       /\ IF wordPhrases = <<>>
          THEN result' = <<>>
          ELSE \E ret \in Orderings(intersect(inverted_index, wordPhrases)) :
                 result' = ret
  /\ err' = "none"
  /\ pc' = "answered"
  /\ UNCHANGED <<docs, inverted_index, pl, ranking, queries, output>>

\* A call of intersect on the built index; it returns list(ret).  On an
\* empty list of units checks is empty and checks[0] raises IndexError.
RunIntersect ==
  /\ pc = "built"
  /\ \E wordPhrases \in UnitLists \cup {<<>>} :
       /\ call' = <<"intersect", wordPhrases>>
       /\ IF wordPhrases = <<>>
          THEN /\ result' = <<>>
               /\ err' = "IndexError"
          ELSE /\ \E ret \in Orderings(intersect(inverted_index, wordPhrases)) :
                    result' = ret
               /\ err' = "none"
  /\ pc' = "answered"
  /\ UNCHANGED <<docs, inverted_index, pl, ranking, queries, output>>

\* A call of union on the built index; it returns list(results).
RunUnion ==
  /\ pc = "built"
  /\ \E wordPhrases \in UnitLists \cup {<<>>} :
       \E results \in Orderings(union(inverted_index, wordPhrases)) :
         /\ call' = <<"union", wordPhrases>>
         /\ result' = results
  /\ err' = "none"
  /\ pc' = "answered"
  /\ UNCHANGED <<docs, inverted_index, pl, ranking, queries, output>>

\* The caller goes on to its next query.
NextQuery ==
  /\ pc = "answered"
  /\ pc' = "built"
  /\ call' = NoCall
  /\ result' = <<>>
  /\ err' = "none"
  /\ UNCHANGED <<docs, inverted_index, pl, ranking, queries, output>>

Next ==
  \/ AddDoc \/ BuildReturn
  \/ RunTF \/ RunDF \/ RunCF \/ RunFindDocs \/ RunIntersect \/ RunUnion
  \/ RunQL \/ RunBM25
  \/ NextQuery

Spec == Init /\ [][Next]_vars

\* build_inverted_index alone: the loop over the documents and the return.
NextBuild == AddDoc \/ BuildReturn

SpecBuild == Init /\ [][NextBuild]_vars

\* A PostingList on its own, driven by arbitrary update calls.
PLUpdate ==
  /\ pl.tf < MaxUpdates
  /\ \E d \in DocIds, p \in 1..MaxPos : pl' = update(pl, d, p)
  /\ UNCHANGED <<docs, inverted_index, pc, call, result, err, ranking, queries, output>>

NextPL == PLUpdate

SpecPL == Init /\ [][NextPL]_vars

\* The tail of a ranker on a collection of any size, driven on its own.
\* ranking is the candidate list as the sort leaves it; an entry stands for
\* a (score, doc) tuple and is written as its place in the sorted order.
\* One more document matched a unit: the sorted list is one entry longer.
ScoreCandidate ==
  /\ pc = "building"
  /\ Len(ranking) < MaxRanked
  /\ ranking' = Append(ranking, Len(ranking) + 1)
  /\ UNCHANGED <<docs, inverted_index, pc, call, result, err, pl, queries, output>>

\* `if len(ranking) >= 100: ranking = ranking[0:100]` and the return.
ReturnTop ==
  /\ pc = "building"
  /\ pc' = "answered"
  /\ call' = <<"rank", <<>>>>
  /\ result' = Truncate(ranking)
  /\ UNCHANGED <<docs, inverted_index, err, pl, ranking, queries, output>>

NextTop == ScoreCandidate \/ ReturnTop

SpecTop == Init /\ [][NextTop]_vars

\* A slip of the else branch: the query of an unknown kind ends the batch.
RunQuery_Abort ==
  /\ pc = "built"
  /\ Len(queries) < MaxQueries
  /\ \E q \in BatchQueries :
       /\ q.kind \notin Kinds
       /\ queries' = Append(queries, q)
  /\ pc' = "raised"
  /\ err' = "ValueError"
  /\ UNCHANGED <<docs, inverted_index, call, result, pl, ranking, output>>

\* One iteration of `for q in queries` of run_queries.  An exception of a
\* ranker leaves the loop and run_queries.
RunQuery ==
  /\ pc = "built"
  /\ Len(queries) < MaxQueries
  /\ \E q \in BatchQueries :
       LET name == QName(Len(queries) + 1)
           Written(lines, e) ==
             /\ output' = output \o lines
             /\ err' = e
             /\ pc' = IF e = "none" THEN "built" ELSE "raised"
       IN /\ queries' = Append(queries, q)
          /\ CASE q.kind = "tf" ->
                    Written(TFLines(inverted_index, name, q.wps[1]), "none")
               [] q.kind = "df" ->
                    Written(DFLines(inverted_index, name, q.wps), "none")
               [] q.kind = "and" ->
                    \E matches \in Orderings(intersect(inverted_index, q.wps)) :
                      Written(BoolLines(name, matches), "none")
               [] q.kind = "or" ->
                    \E matches \in Orderings(union(inverted_index, q.wps)) :
                      Written(BoolLines(name, matches), "none")
               [] q.kind = "ql" ->
                    \E docMatches \in Orderings(union(inverted_index, q.wps)) :
                      \E rounding \in Roundings(inverted_index, q.wps, docMatches) :
                        LET r == query_likelihood(inverted_index, q.wps,
                                                  docMatches, rounding)
                        IN Written(RankLines(name, r.result), r.err)
               [] q.kind = "bm25" ->
                    \E docMatches \in Orderings(union(inverted_index, q.wps)) :
                      LET r == bm25(inverted_index, q.wps, docMatches)
                      IN Written(RankLines(name, r.result), r.err)
               [] OTHER -> Written(<<Marker>>, "none")
  /\ UNCHANGED <<docs, inverted_index, call, result, pl, ranking>>

\* `f.close()` and `return` after the last query.
CloseFile ==
  /\ pc = "built"
  /\ pc' = "closed"
  /\ UNCHANGED <<docs, inverted_index, call, result, err, pl, ranking, queries, output>>

\* run_queries: the index is built, the queries are run in file order, the
\* output file is closed.
NextBatch == AddDoc \/ BuildReturn \/ RunQuery \/ CloseFile

SpecBatch == Init /\ [][NextBatch]_vars

\* One iteration of `for doc in docs` for a document that holds a token
\* spelled like an aggregate key: the inner loop raises at that token.
AddKeyDoc ==
  /\ pc = "building"
  /\ Len(docs) < MaxDocs
  /\ \E d \in DocIds, t \in KeyTexts :
       LET doc == [storyID |-> d, text |-> t]
       IN /\ TokenCount(docs) + Len(t) <= MaxTokens
          /\ docs' = Append(docs, doc)
          /\ inverted_index' = IndexDoc(inverted_index, doc)
          /\ err' = BuildError(t)
  /\ pc' = "raised"
  /\ UNCHANGED <<call, result, pl, ranking, queries, output>>

\* A call of tf, df or collection_frequency on the built index for a word
\* spelled like an aggregate key.
RunOnKeyWord ==
  /\ pc = "built"
  /\ \E fn \in {"tf", "df", "collection_frequency"}, doc_id \in DocIds,
        word \in KeyTokens :
       LET r == SingleTermCall(inverted_index, fn, doc_id, word)
       IN /\ call' = <<fn, <<<<word>>>>, doc_id>>
          /\ result' = r.result
          /\ err' = r.err
  /\ pc' = "answered"
  /\ UNCHANGED <<docs, inverted_index, pl, ranking, queries, output>>

\* Collections and queries with tokens spelled like the aggregate keys.
NextKeys == AddDoc \/ AddKeyDoc \/ BuildReturn \/ RunOnKeyWord

SpecKeys == Init /\ [][NextKeys]_vars

\* ================================================================== claims
\* The properties of tf, df, collection_frequency and findDocsForWP range
\* over the units of at most MaxPhrase words.
MaxPhrase == 3

\* Every query unit of one to MaxPhrase words, and the multi-term ones.
AllUnits == SeqsUpTo(Words, MaxPhrase) \ {<<>>}

Phrases == {u \in AllUnits : Len(u) >= 2}

\* The number of start offsets p of text at which phrase stands.
Occurrences(text, phrase) ==
  Cardinality({p \in 1..Len(text) :
                 \A j \in 1..Len(phrase) :
                   p + j - 1 <= Len(text) /\ text[p + j - 1] = phrase[j]})

\* The document ids of the consumed documents are pairwise distinct.
DistinctIds ==
  \A m, n \in 1..Len(docs) : docs[m].storyID = docs[n].storyID => m = n

IdOccursOnce(n) ==
  \A m \in 1..Len(docs) : docs[m].storyID = docs[n].storyID => m = n

\* Every posting of the index, as <<docID, frequency, positions>>.
AllPostings ==
  UNION {Range(inverted_index[t].pList) : t \in TermKeys(inverted_index)}

StrictlyAscending(s) == \A i \in 1..(Len(s) - 1) : s[i] < s[i + 1]

\* r is in descending score order, equal scores in ascending id order.
RankedDescTiesAsc(r, ScoreLess(_, _)) ==
  \A i, j \in 1..Len(r) :
    i < j =>
      \/ ScoreLess(r[j][1], r[i][1])
      \/ /\ ~ScoreLess(r[i][1], r[j][1])
         /\ IdOrd(r[i][2]) < IdOrd(r[j][2])

IntLess(x, y) == x < y

\* C1: after every prefix of the document sequence, xx_totalTF is the sum
\* of the token counts of the documents consumed so far and the sum of
\* PostingList.tf over all terms of the index.
C1_TotalTF ==
  LET terms == TermKeys(inverted_index)
  IN /\ inverted_index["xx_totalTF"]
          = SumSeq([i \in 1..Len(docs) |-> Len(docs[i].text)])
     /\ inverted_index["xx_totalTF"]
          = SumOver([t \in terms |-> inverted_index[t].tf], terms)

C1_Witness ==
  /\ Len(docs) = 2
  /\ docs[1].storyID = docs[2].storyID
  /\ Cardinality(TermKeys(inverted_index)) = 2
  /\ inverted_index["xx_totalTF"] = 4

\* C2: after any sequence of update calls on a PostingList, the postings'
\* frequencies sum to tf, each posting's frequency is the length of its
\* position list, and docNumLookup maps every id to the index of the one
\* posting that carries that id.
C2_PostingListConsistent ==
  LET l == pl.pList
      look == pl.docNumLookup
  IN /\ SumSeq([i \in 1..Len(l) |-> l[i][2]]) = pl.tf
     /\ \A i \in 1..Len(l) : l[i][2] = Len(l[i][3])
     /\ \A d \in DOMAIN look :
          /\ look[d] \in 0..(Len(l) - 1)
          /\ l[look[d] + 1][1] = d
     /\ \A i, j \in 1..Len(l) : l[i][1] = l[j][1] => i = j
     /\ \A i \in 1..Len(l) : l[i][1] \in DOMAIN look

C2_Witness ==
  /\ Len(pl.pList) = 2
  /\ pl.pList[1][2] = 3
  /\ pl.pList[2][2] = 1
  /\ pl.tf = 4

\* C3: on a built index, for a multi-term phrase and a document whose id
\* is the id of no other document, tf is the number of start offsets of
\* the document's token sequence at which the whole phrase stands
\* (overlapping occurrences counted separately); and tf is 0 for any id
\* under which some word of the phrase was never indexed.
C3_PhraseTF ==
  pc = "built" =>
    \A phrase \in Phrases :
      /\ \A n \in 1..Len(docs) :
           IdOccursOnce(n) =>
             tf(inverted_index, docs[n].storyID, phrase)
               = Occurrences(docs[n].text, phrase)
      /\ \A d \in DocIds :
           (\E j \in 1..Len(phrase) :
              \A n \in 1..Len(docs) :
                docs[n].storyID = d => phrase[j] \notin Range(docs[n].text))
           => tf(inverted_index, d, phrase) = 0

C3_Witness ==
  /\ pc = "built"
  /\ Len(docs) = 2
  /\ docs[1] = [storyID |-> "d1", text |-> <<"a", "a", "a">>]
  /\ docs[2].storyID = "d2"
  /\ tf(inverted_index, "d1", <<"a", "a">>) = 2
  /\ tf(inverted_index, "d2", <<"a", "a">>) = 0

\* C4 as stated: in every posting of an index built from any document
\* sequence, repeated ids included, the position list is 1-based, strictly
\* ascending and free of duplicates.
C4_Original ==
  \A p \in AllPostings :
    /\ \A i \in 1..Len(p[3]) : p[3][i] >= 1
    /\ StrictlyAscending(p[3])

\* C4 (amended): every recorded position is at least 1; when the document
\* ids are pairwise distinct every position list is strictly ascending.
C4_PositionsAscending ==
  \A p \in AllPostings :
    /\ \A i \in 1..Len(p[3]) : p[3][i] >= 1
    /\ DistinctIds => StrictlyAscending(p[3])

C4_Witness ==
  /\ Len(docs) = 2
  /\ DistinctIds
  /\ \E p \in AllPostings : p[3] = <<1, 3>>
  /\ \E p \in AllPostings : p[3] = <<2>>

\* C5 as stated: every document id of a posting is a key of xx_docLens and
\* its recorded length is at least the highest position recorded for it,
\* for any document sequence.
C5_Original ==
  \A p \in AllPostings :
    /\ p[1] \in DOMAIN inverted_index["xx_docLens"]
    /\ \A i \in 1..Len(p[3]) : inverted_index["xx_docLens"][p[1]] >= p[3][i]

\* C5 (amended): every document id of a posting is a key of xx_docLens;
\* when the document ids are pairwise distinct its recorded length is at
\* least the highest position recorded for it.
C5_DocLensCoverPositions ==
  \A p \in AllPostings :
    /\ p[1] \in DOMAIN inverted_index["xx_docLens"]
    /\ DistinctIds =>
         \A i \in 1..Len(p[3]) : inverted_index["xx_docLens"][p[1]] >= p[3][i]

C5_Witness ==
  /\ Len(docs) = 2
  /\ DistinctIds
  /\ inverted_index["xx_docLens"]["d1"] = 3
  /\ \E p \in AllPostings : p[1] = "d1" /\ p[3] = <<1, 2, 3>>

\* C6: query_likelihood returns its candidates in descending score order,
\* equal scores in ascending document-id order.
C6_QLOrder ==
  (pc = "answered" /\ call[1] = "ql" /\ err = "none")
    => RankedDescTiesAsc(result, LogSumLess)

\* C7: bm25 returns its candidates in descending score order, equal scores
\* in ascending document-id order.
C7_BM25Order ==
  (pc = "answered" /\ call[1] = "bm25" /\ err = "none")
    => RankedDescTiesAsc(result, IntLess)

C7_Witness ==
  /\ pc = "answered"
  /\ call[1] = "bm25"
  /\ err = "none"
  /\ Len(result) = 2
  /\ result[1][1] = result[2][1]
  /\ result[1][2] = "d1"
  /\ docs[1].storyID = "d2"

\* C8: query_likelihood raises nothing and scores every candidate: for
\* every candidate document and every unit the logarithm's argument is
\* strictly positive.
C8_QLNoError ==
  (pc = "answered" /\ call[1] = "ql") =>
    /\ err = "none"
    /\ Len(result) = Cardinality(union(inverted_index, call[2]))
    /\ \A d \in union(inverted_index, call[2]) :
         \A i \in 1..Len(call[2]) :
           logVal(inverted_index, d, call[2][i])[1] > 0

\* C9: when no unit of the query stands in any document, query_likelihood
\* and bm25 return the empty list and raise nothing, also on an index built
\* from no document or from empty documents only.
C9_NoMatchEmptyResult ==
  (/\ pc = "answered"
   /\ call[1] \in {"ql", "bm25"}
   /\ \A i \in 1..Len(call[2]) :
        \A n \in 1..Len(docs) : Occurrences(docs[n].text, call[2][i]) = 0)
    => (err = "none" /\ result = <<>>)

\* C10: for a unit with a word that is no key of the index, tf is 0 for
\* every document, df and collection_frequency are 0 and findDocsForWP is
\* empty, whether the missing word is the first word or a later one.
C10_MissingTermZero ==
  pc = "built" =>
    \A unit \in AllUnits :
      (\E j \in 1..Len(unit) : unit[j] \notin DOMAIN inverted_index) =>
        /\ \A d \in DocIds : tf(inverted_index, d, unit) = 0
        /\ df(inverted_index, unit) = 0
        /\ collection_frequency(inverted_index, unit) = 0
        /\ findDocsForWP(inverted_index, unit) = <<>>

C10_Witness ==
  /\ pc = "built"
  /\ "a" \in DOMAIN inverted_index
  /\ AbsentWord \notin DOMAIN inverted_index
  /\ df(inverted_index, <<"a">>) = 2
  /\ df(inverted_index, <<"a", AbsentWord>>) = 0
  /\ findDocsForWP(inverted_index, <<"a", AbsentWord>>) = <<>>

NoDuplicates(s) == \A i, j \in 1..Len(s) : s[i] = s[j] => i = j

\* C11: on a built index, for every unit, findDocsForWP lists exactly the
\* document ids with tf > 0, each once; for a single term that is a key,
\* these are the ids of the term's PostingList, and their number is df.
C11_FindDocsIsTFPositive ==
  pc = "built" =>
    \A unit \in AllUnits :
      LET found == findDocsForWP(inverted_index, unit)
      IN /\ Range(found) = {d \in DocIds : tf(inverted_index, d, unit) > 0}
         /\ NoDuplicates(found)
         /\ (Len(unit) = 1 /\ unit[1] \in DOMAIN inverted_index) =>
              /\ Range(found) = DOMAIN inverted_index[unit[1]].docNumLookup
              /\ Len(found) = df(inverted_index, unit)

C11_Witness ==
  /\ pc = "built"
  /\ findDocsForWP(inverted_index, <<"a">>) = <<"d2", "d1">>
  /\ findDocsForWP(inverted_index, <<"a", "b">>) = <<"d1">>
  /\ tf(inverted_index, "d2", <<"a", "b">>) = 0

\* C12: on a built index, for every unit, df is the number of document
\* ids of the whole collection with tf > 0; no document outside the first
\* word's posting list matches.
C12_DFCountsMatchingDocs ==
  pc = "built" =>
    \A unit \in AllUnits :
      df(inverted_index, unit)
        = Cardinality({d \in DocIds : tf(inverted_index, d, unit) > 0})

C12_Witness ==
  /\ pc = "built"
  /\ DistinctIds
  /\ Len(docs) = 2
  /\ "b" \notin Range(docs[1].text)
  /\ df(inverted_index, <<"b", "a">>) = 1
  /\ df(inverted_index, <<"a">>) = 2

\* C13: on a built index, for every unit, collection_frequency is the sum
\* of tf over the documents of the first word's posting list, and 0 when
\* the first word is no key; for a single term the sum is the tf the
\* PostingList stores.
C13_CFSumsTF ==
  pc = "built" =>
    \A unit \in AllUnits :
      IF unit[1] \notin DOMAIN inverted_index
      THEN collection_frequency(inverted_index, unit) = 0
      ELSE LET D == DOMAIN inverted_index[unit[1]].docNumLookup
               total == SumOver([d \in D |-> tf(inverted_index, d, unit)], D)
           IN /\ collection_frequency(inverted_index, unit) = total
              /\ Len(unit) = 1 => total = inverted_index[unit[1]].tf

C13_Witness ==
  /\ pc = "built"
  /\ DistinctIds
  /\ collection_frequency(inverted_index, <<"a", "a">>) = 2
  /\ df(inverted_index, <<"a", "a">>) = 2
  /\ collection_frequency(inverted_index, <<"a">>) = 4

\* C14: on a list of at least one unit, intersect returns, each once, exactly the document ids that
\* findDocsForWP lists for every unit of the query, and union exactly those
\* it lists for at least one unit.
C14_IntersectUnion ==
  (pc = "answered" /\ call[2] # <<>>) =>
    LET wps == call[2]
        found(i) == Range(findDocsForWP(inverted_index, wps[i]))
    IN /\ call[1] = "intersect" =>
            /\ NoDuplicates(result)
            /\ Range(result) = {d \in DocIds : \A i \in 1..Len(wps) : d \in found(i)}
       /\ call[1] = "union" =>
            /\ NoDuplicates(result)
            /\ Range(result) = {d \in DocIds : \E i \in 1..Len(wps) : d \in found(i)}

C14_Witness ==
  /\ pc = "answered"
  /\ docs = <<[storyID |-> "d1", text |-> <<"a", "b">>],
              [storyID |-> "d2", text |-> <<"b">>]>>
  /\ call = <<"intersect", <<<<"a">>, <<"b">>>>>>
  /\ result = <<"d1">>
  /\ union(inverted_index, call[2]) = {"d1", "d2"}

C16_OnlyMatchingDocs ==
  (pc = "answered" /\ call[1] \in {"ql", "bm25"} /\ err = "none") =>
    \A k \in 1..Len(result) :
      \E i \in 1..Len(call[2]) :
        tf(inverted_index, result[k][2], call[2][i]) > 0

C16_Witness ==
  /\ pc = "answered"
  /\ call = <<"ql", <<<<"b">>, <<"a", "a">>>>>>
  /\ err = "none"
  /\ DistinctIds
  /\ Len(docs) = 2
  /\ Len(result) = 1
  /\ result[1][2] = "d2"
  /\ tf(inverted_index, "d1", <<"a">>) = 1

\* C17: on a built index, for every unit list, query_likelihood and bm25
\* give the same ordered output for every order in which the candidate
\* set of union is enumerated; the output of a call that was made is the
\* output for each of these orders.
C17_OrderIndependent ==
  /\ pc = "built" =>
       \A wordPhrases \in UnitLists :
         LET O == Orderings(union(inverted_index, wordPhrases))
             first == CHOOSE o \in O : TRUE
         IN \A other \in O :
              /\ bm25(inverted_index, wordPhrases, other)
                   = bm25(inverted_index, wordPhrases, first)
              /\ \A rounding \in Roundings(inverted_index, wordPhrases, first) :
                   query_likelihood(inverted_index, wordPhrases, other, rounding)
                     = query_likelihood(inverted_index, wordPhrases, first, rounding)
  /\ (pc = "answered" /\ call[1] = "bm25") =>
       \A o \in Orderings(union(inverted_index, call[2])) :
         bm25(inverted_index, call[2], o) = [err |-> err, result |-> result]
  /\ (pc = "answered" /\ call[1] = "ql") =>
       \A o \in Orderings(union(inverted_index, call[2])) :
         \E rounding \in Roundings(inverted_index, call[2], o) :
           query_likelihood(inverted_index, call[2], o, rounding)
             = [err |-> err, result |-> result]

C17_Witness ==
  /\ pc = "answered"
  /\ call = <<"ql", <<<<"a">>, <<"b">>>>>>
  /\ err = "none"
  /\ Cardinality(Orderings(union(inverted_index, call[2]))) = 2
  /\ Len(result) = 2
  /\ result[1][2] = "d2"

\* C18: on a built index, for every phrase, df of the phrase is at most df
\* of its first word.
C18_PhraseDFAtMostFirst ==
  pc = "built" =>
    \A phrase \in Phrases :
      df(inverted_index, phrase) <= df(inverted_index, <<phrase[1]>>)

C18_Witness ==
  /\ pc = "built"
  /\ df(inverted_index, <<"a", "b">>) = 1
  /\ df(inverted_index, <<"a">>) = 2
  /\ df(inverted_index, <<"b">>) = 1

\* C19: once the index is built, no step changes it: every call of tf, df,
\* collection_frequency, findDocsForWP, intersect, union, query_likelihood
\* and bm25 leaves every PostingList, the four aggregates and the set of
\* keys as they were.
C19_QueriesLeaveIndex ==
  [][(pc \in {"built", "answered"}) => (inverted_index' = inverted_index)]_vars

C19_Witness ==
  /\ pc = "answered"
  /\ call = <<"tf", <<<<"a", AbsentWord>>>>, "d1">>
  /\ result = 0
  /\ TermKeys(inverted_index) = {"a"}
  /\ inverted_index["xx_numUniqueTerms"] = 1

\* C20: every iteration of the document loop adds 1 to xx_numDocs and
\* stores the document's token count under its id in xx_docLens, leaving
\* the other lengths alone; a document without tokens leaves xx_totalTF,
\* xx_numUniqueTerms, the term keys and every PostingList as they were.
C20_EveryDocCounted ==
  [][docs' # docs =>
       LET doc == docs'[Len(docs')]
           lens == inverted_index["xx_docLens"]
       IN /\ inverted_index'["xx_numDocs"] = inverted_index["xx_numDocs"] + 1
          /\ DOMAIN inverted_index'["xx_docLens"] = DOMAIN lens \cup {doc.storyID}
          /\ inverted_index'["xx_docLens"][doc.storyID] = Len(doc.text)
          /\ \A d \in DOMAIN lens \ {doc.storyID} :
               inverted_index'["xx_docLens"][d] = lens[d]
          /\ doc.text = <<>> =>
               /\ inverted_index'["xx_totalTF"] = inverted_index["xx_totalTF"]
               /\ inverted_index'["xx_numUniqueTerms"]
                    = inverted_index["xx_numUniqueTerms"]
               /\ TermKeys(inverted_index') = TermKeys(inverted_index)
               /\ \A t \in TermKeys(inverted_index) :
                    inverted_index'[t] = inverted_index[t]]_vars

C20_Witness ==
  /\ Len(docs) = 2
  /\ docs[1].text = <<>>
  /\ docs[2] = [storyID |-> "d2", text |-> <<>>]
  /\ inverted_index["xx_numDocs"] = 2
  /\ inverted_index["xx_docLens"] = ("d1" :> 0) @@ ("d2" :> 0)
  /\ inverted_index["xx_totalTF"] = 0
  /\ TermKeys(inverted_index) = {}

\* The lines of the output file that carry the name of the k-th query.
LinesOf(k) ==
  LET Named(l) == l[1] = QName(k)
  IN SelectSeq(output, Named)

RanksInOrder(lines) == \A i \in 1..Len(lines) : lines[i][4] = i

\* C21: an and / or query writes one line for every document id that
\* matches every unit / some unit, in ascending id order, with score
\* 1.0000 and ranks 1, 2, ..., n; it writes nothing when no id matches.
C21_BooleanOutput ==
  \A k \in 1..Len(queries) :
    queries[k].kind \in {"and", "or"} =>
      LET wps == queries[k].wps
          lines == LinesOf(k)
          Hit(d, i) == tf(inverted_index, d, wps[i]) > 0
          S == IF queries[k].kind = "and"
               THEN {d \in DocIds : \A i \in 1..Len(wps) : Hit(d, i)}
               ELSE {d \in DocIds : \E i \in 1..Len(wps) : Hit(d, i)}
      IN /\ Len(lines) = Cardinality(S)
         /\ {lines[i][3] : i \in 1..Len(lines)} = S
         /\ RanksInOrder(lines)
         /\ \A i \in 1..Len(lines) : lines[i][5] = Format4(1)
         /\ \A i, j \in 1..Len(lines) :
              i < j => IdOrd(lines[i][3]) < IdOrd(lines[j][3])

C21_Witness ==
  /\ pc = "built"
  /\ Len(docs) = 2
  /\ docs[1].storyID = "d2"
  /\ queries = <<[kind |-> "or", wps |-> <<<<"a", "b">>, <<"b">>>>]>>
  /\ output = <<Line("q1", "d1", 1, Format4(1)), Line("q1", "d2", 2, Format4(1))>>
  /\ tf(inverted_index, "d1", <<"a", "b">>) = 0

\* C22: a tf query writes one line for exactly the document ids whose tf
\* for the unit is greater than 0, with that tf as score, in descending tf
\* order, equal tf in ascending id order, ranked 1, 2, ..., n.
C22_TFOutput ==
  \A k \in 1..Len(queries) :
    queries[k].kind = "tf" =>
      LET wp == queries[k].wps[1]
          lines == LinesOf(k)
          S == {d \in DocIds : tf(inverted_index, d, wp) > 0}
          freq(i) == tf(inverted_index, lines[i][3], wp)
      IN /\ Len(lines) = Cardinality(S)
         /\ {lines[i][3] : i \in 1..Len(lines)} = S
         /\ RanksInOrder(lines)
         /\ \A i \in 1..Len(lines) : lines[i][5] = Format4(freq(i))
         /\ \A i, j \in 1..Len(lines) :
              i < j =>
                \/ freq(i) > freq(j)
                \/ freq(i) = freq(j) /\ IdOrd(lines[i][3]) < IdOrd(lines[j][3])

C22_Witness ==
  /\ pc = "built"
  /\ DistinctIds
  /\ Len(docs) = 2
  /\ docs[1].storyID = "d1"
  /\ queries = <<[kind |-> "tf", wps |-> <<<<"a">>>>]>>
  /\ output = <<Line("q1", "d2", 1, Format4(2)), Line("q1", "d1", 2, Format4(1))>>

\* The 1-based places of the units of the k-th query whose df is positive.
EmittedUnits(k) ==
  {i \in 1..Len(queries[k].wps) : df(inverted_index, queries[k].wps[i]) > 0}

UnknownAt == {k \in 1..Len(queries) : queries[k].kind \notin Kinds}

\* The place in the query file of the query that wrote output[p]: a marker
\* line, the m-th of the file, is the line of the m-th query of an unknown
\* kind; any other line names its query.
QueryOf(p) ==
  IF output[p] = Marker
  THEN LET m == Cardinality({r \in 1..p : output[r] = Marker})
       IN CHOOSE k \in UnknownAt : Cardinality({j \in UnknownAt : j <= k}) = m
  ELSE CHOOSE k \in 1..Len(queries) : QName(k) = output[p][1]

\* C28: every query of an unknown kind writes exactly one marker line and
\* raises nothing; the lines of the file stand in query order, so the
\* lines of a later query come after the marker, and a later tf or df
\* query has written all its lines.
C28_UnknownKindSkipped ==
  /\ Cardinality({p \in 1..Len(output) : output[p] = Marker})
       = Cardinality(UnknownAt)
  /\ pc = "raised" => queries[Len(queries)].kind \in Kinds
  /\ \A p, r \in 1..Len(output) : p < r => QueryOf(p) <= QueryOf(r)
  /\ \A k \in 1..Len(queries) :
       /\ queries[k].kind = "tf" =>
            LinesOf(k) = TFLines(inverted_index, QName(k), queries[k].wps[1])
       /\ queries[k].kind = "df" =>
            LinesOf(k) = DFLines(inverted_index, QName(k), queries[k].wps)

C28_Witness ==
  /\ pc = "closed"
  /\ Len(queries) = 2
  /\ queries[1].kind = UnknownKind
  /\ queries[2] = [kind |-> "tf", wps |-> <<<<"a">>>>]
  /\ err = "none"
  /\ Len(output) = 3
  /\ output[1] = Marker
  /\ output[2][1] = "q2"
  /\ output[3][1] = "q2"

\* The distinct units of a unit list.
DistinctUnits(words) == {words[i] : i \in 1..Len(words)}

\* C24: in bm25 the score of every returned document is the sum, over the
\* distinct units u of the query, of m times the summand of u computed
\* with n = df(u) and qf = m, where m is the number of places u takes in
\* the unit list.
C24_BM25Summands ==
  (pc = "answered" /\ call[1] = "bm25" /\ err = "none") =>
    \A k \in 1..Len(result) :
      LET doc == result[k][2]
          words == call[2]
          U == DistinctUnits(words)
          m == [u \in U |-> Cardinality({i \in 1..Len(words) : words[i] = u})]
          part == [u \in U |->
                     m[u] * Summand(inverted_index["xx_numDocs"],
                                    avdl(inverted_index),
                                    inverted_index["xx_docLens"][doc],
                                    df(inverted_index, u),
                                    tf(inverted_index, doc, u), m[u])]
      IN result[k][1] = SumOver(part, U)

C24_Witness ==
  /\ pc = "answered"
  /\ call = <<"bm25", <<<<"a">>, <<"a">>>>>>
  /\ err = "none"
  /\ Len(result) = 2
  /\ result[1][1] # 0
  /\ result[1][1] # result[2][1]

\* C25 as stated: avdl is the sum of the recorded lengths divided by the
\* number of recorded lengths, for every collection.
C25_Original ==
  (pc = "answered" /\ call[1] = "bm25" /\ inverted_index["xx_numDocs"] > 0) =>
    LET docLens == inverted_index["xx_docLens"]
        av == avdl(inverted_index)
    IN av[1] * Cardinality(DOMAIN docLens)
         = SumOver(docLens, DOMAIN docLens) * av[2]

\* C25 (amended): avdl is the sum of the recorded lengths divided by
\* xx_numDocs, the number of documents consumed; when the document ids
\* are pairwise distinct this is the mean of the documents' lengths.
C25_Avdl ==
  (pc = "answered" /\ call[1] = "bm25" /\ inverted_index["xx_numDocs"] > 0) =>
    LET docLens == inverted_index["xx_docLens"]
        av == avdl(inverted_index)
    IN /\ av[1] = SumOver(docLens, DOMAIN docLens)
       /\ av[2] = Len(docs)
       /\ DistinctIds =>
            /\ av[1] = TokenCount(docs)
            /\ av[2] = Cardinality(DOMAIN docLens)

C25_Witness ==
  /\ pc = "answered"
  /\ call[1] = "bm25"
  /\ err = "none"
  /\ Len(result) = 1
  /\ Len(docs) = 2
  /\ docs[1].storyID = docs[2].storyID
  /\ avdl(inverted_index) = <<3, 2>>

\* C26: bm25 raises nothing: with a candidate avdl is positive, and for
\* every unit 0 <= n_i <= N.
C26_BM25NoDomainError ==
  (pc = "answered" /\ call[1] = "bm25") =>
    /\ err = "none"
    /\ union(inverted_index, call[2]) # {} => avdl(inverted_index)[1] > 0
    /\ \A i \in 1..Len(call[2]) :
         /\ df(inverted_index, call[2][i]) >= 0
         /\ df(inverted_index, call[2][i]) <= inverted_index["xx_numDocs"]

\* C27: for every unit, the collection count query_likelihood computes
\* inline is collection_frequency of the unit.
C27_CqiIsCollectionFrequency ==
  pc = "built" =>
    \A unit \in AllUnits :
      cqi(inverted_index, unit) = collection_frequency(inverted_index, unit)

C27_Witness ==
  /\ pc = "built"
  /\ cqi(inverted_index, <<"a", "b">>) = 2
  /\ df(inverted_index, <<"a">>) = 1
  /\ cqi(inverted_index, <<"a">>) = 2
  /\ cqi(inverted_index, <<"b", "a">>) = 1

\* C30: on an empty unit list union returns the empty list and raises
\* nothing, and intersect returns nothing and raises; on a list of one
\* unit both return the document ids of findDocsForWP of the unit, each
\* once.
C30_EmptyAndSingleUnitList ==
  (pc = "answered" /\ call[1] \in {"intersect", "union"}) =>
    /\ (call[1] = "union" /\ call[2] = <<>>) =>
         (err = "none" /\ result = <<>>)
    /\ (call[1] = "intersect" /\ call[2] = <<>>) =>
         (err = "IndexError" /\ result = <<>>)
    /\ Len(call[2]) = 1 =>
         LET found == findDocsForWP(inverted_index, call[2][1])
         IN /\ err = "none"
            /\ Range(result) = Range(found)
            /\ Len(result) = Len(found)

C30_Witness ==
  /\ pc = "answered"
  /\ call = <<"intersect", <<>>>>
  /\ err = "IndexError"
  /\ inverted_index["xx_numDocs"] = 2
  /\ TermKeys(inverted_index) = {"a", "b"}

\* C29: build_inverted_index raises nothing on a token spelled like an
\* aggregate key: the token gets its own PostingList, the aggregate under
\* that name stays a count or the length map; tf, df and
\* collection_frequency of such a word that stands in no document are 0.
C29_KeyTokensAreTerms ==
  /\ pc # "raised"
  /\ inverted_index["xx_numUniqueTerms"]
       = Cardinality(UNION {Range(docs[n].text) : n \in 1..Len(docs)})
  /\ inverted_index["xx_totalTF"] = TokenCount(docs)
  /\ (pc = "answered" /\ call[2][1][1] \in SpecialKeys) =>
       (err = "none" /\ result = 0)

====
